---------------------------- MODULE Spec2Model ----------------------------
(***************************************************************************)
(* State-machine model of src/app.py, the Flux Realism image generator.    *)
(*                                                                         *)
(* app.py is a Streamlit script: every user interaction of a session runs  *)
(* the script from its first line to its last.  A run that does not        *)
(* generate is one atomic action.  A run that generates is cut at the      *)
(* places where another session's thread can interleave or where the       *)
(* remote service acts: after the status line (148), after the write of    *)
(* os.environ (31), after fal_client.subscribe has sent the request (33),   *)
(* after each queue update (24-27), and at the return/raise of subscribe.  *)
(*                                                                         *)
(* What the libraries do is modelled as documented:                        *)
(*  - a widget keeps the value the user gave it from run to run as long as *)
(*    its parameters stay the same; st.text_input is called with           *)
(*    value=st.session_state.api_key and no key, so a change of that       *)
(*    argument makes it a new widget holding the new default;              *)
(*  - st.button returns True only in the run its click started, and a      *)
(*    disabled button cannot be clicked;                                   *)
(*  - st.rerun() ends the run at once and starts a new one;                *)
(*  - fal_client reads FAL_KEY from os.environ when subscribe is called;   *)
(*  - interactions of one session are served one after the other (the      *)
(*    run blocks the session), sessions of one process run in threads.     *)
(* Floats are kept in tenths: guidance_scale 35 is 3.5, strength 10 is 1.0.*)
(* Texts the code inspects (error messages) are sequences of characters.   *)
(***************************************************************************)
EXTENDS Integers, Sequences, FiniteSets, TLC

VARIABLES
    api_key,            \* st.session_state.api_key, per session
    example_prompt,     \* st.session_state.example_prompt: <<>> (absent) or <<text>>
    key_input,          \* the sidebar text_input: [default, value]
    prompt,             \* the text_area's value
    image_size,         \* the selectbox's value
    num_steps,          \* slider
    guidance_scale,     \* slider, in tenths
    strength,           \* slider, in tenths
    generate_button,    \* what st.button("Generate Image") returned in the last run
    generate_disabled,  \* the disabled= argument the button was last drawn with
    os_environ,         \* os.environ['FAL_KEY'], one per process; "" when unset
    envWriter,          \* the session whose run wrote os_environ last ("none")
    pc,                 \* where the session's run stands
    status_placeholder, \* what status_placeholder shows
    errors,             \* the st.error boxes of the run, in order
    image,              \* the URL of the picture st.image drew: <<>> or <<url>>
    download_link,      \* the URL of the Download link: <<>> or <<url>>
    details,            \* the st.json dump: <<>> or <<record>>
    fetched,            \* the URLs requests.get was called with, in order
    request,            \* the remote call of this run: <<>> or <<record>>
    response,           \* what subscribe returned in this run: <<>> or <<result>>
    arrived,            \* log messages of InProgress updates, in arrival order
    shown,              \* progress lines status_placeholder was given, in order
    nCalls,             \* remote calls the session's runs have made
    dispatched          \* runs of the session that entered the submission handler

formVars == <<prompt, image_size, num_steps, guidance_scale, strength>>
keyVars  == <<api_key, key_input>>
outVars  == <<status_placeholder, errors, image, download_link, details,
              fetched, request, response, arrived, shown>>
envVars  == <<os_environ, envWriter>>
cntVars  == <<nCalls, dispatched>>
vars == <<api_key, example_prompt, key_input, prompt, image_size, num_steps,
          guidance_scale, strength, generate_button, generate_disabled,
          os_environ, envWriter, pc, status_placeholder, errors, image,
          download_link, details, fetched, request, response, arrived, shown,
          nCalls, dispatched>>

---------------------------------------------------------------------------
(* Bounds of the model. *)

\* Remote calls one session may make.
MaxCalls == 2
\* Log messages the remote service sends during one call.
MaxLogs == 2
\* Images in one response.
MaxImages == 2

---------------------------------------------------------------------------
(* The values users and the remote service supply. *)

Sessions == {"A", "B"}
\* The hosting model of the application: one interactive user per process.
OneUser == {"A"}

Keys == {"abc123", "zzz999"}
Prompts == {"a red fox in snow"}
\* The settings the model's users pick from, each among the widget's options
\* or inside its range.
SizeChoices == {"landscape_4_3", "square"}
StepChoices == {28, 50}
GuidanceChoices == {35, 200}
StrengthChoices == {10, 5}

DefaultImageSize == "landscape_4_3"
DefaultNumSteps == 28
DefaultGuidanceScale == 35
DefaultStrength == 10

ExamplePrompt == "A charismatic speaker is captured mid-speech. ..."

Urls == {"https://fal.media/1.jpeg", "https://fal.media/2.jpeg"}
Messages == {"loading model", "denoising"}

Str401 == <<"4","0","1"," ","U","n","a","u","t","h","o","r","i","z","e","d">>
StrUpper == <<"U","N","A","U","T","H","O","R","I","Z","E","D">>
StrTimeout == <<"t","i","m","e","d"," ","o","u","t">>
StrSplit == <<"u","n"," ","a","u","t","h","o","r","i","z","e","d">>
StrBadImage == <<"c","a","n","n","o","t"," ","i","d","e","n","t","i","f","y">>
\* str(e) of the exceptions the remote call raises, and of those the image
\* fetch and decode raise.
RemoteErrors == {Str401, StrUpper, StrTimeout, StrSplit}
FetchErrors == {StrBadImage, Str401}

---------------------------------------------------------------------------
(* Python's str.lower() and the "in" test on strings (line 175). *)

UpperLetters == <<"A","B","C","D","E","F","G","H","I","J","K","L","M",
                  "N","O","P","Q","R","S","T","U","V","W","X","Y","Z">>
LowerLetters == <<"a","b","c","d","e","f","g","h","i","j","k","l","m",
                  "n","o","p","q","r","s","t","u","v","w","x","y","z">>

LowerChar(c) ==
    IF \E i \in 1..Len(UpperLetters) : UpperLetters[i] = c
    THEN LowerLetters[CHOOSE i \in 1..Len(UpperLetters) : UpperLetters[i] = c]
    ELSE c

\* A comparison that keeps the letter case (no .lower()).
LowerUnchanged(str) == str

Lower(str) == [i \in 1..Len(str) |-> LowerChar(str[i])]

Contains(sub, str) ==
    \E i \in 1..(Len(str) - Len(sub) + 1) : SubSeq(str, i, i + Len(sub) - 1) = sub

Unauthorized == <<"u","n","a","u","t","h","o","r","i","z","e","d">>

---------------------------------------------------------------------------
(* The remote service's answers and the outcomes of the image fetch. *)

ImageLists ==
    UNION { [1..n -> {[url |-> u] : u \in Urls}] : n \in 0..MaxImages }

\* None, {}, a dict without "images", and dicts with an "images" list.
ResultNone == [kind |-> "None", keys |-> {}, images |-> <<>>]
ResultEmptyDict == [kind |-> "dict", keys |-> {}, images |-> <<>>]
ResultNoImagesKey == [kind |-> "dict", keys |-> {"seed"}, images |-> <<>>]
Results ==
    {ResultNone, ResultEmptyDict, ResultNoImagesKey}
    \cup {[kind |-> "dict", keys |-> {"images", "seed"}, images |-> l] : l \in ImageLists}

FetchOk == [ok |-> TRUE, error |-> <<>>]
FetchOutcomes == {FetchOk} \cup {[ok |-> FALSE, error |-> e] : e \in FetchErrors}

\* InProgress updates carry logs; the other updates (Queued) carry none.
LogLists == UNION { [1..n -> {[message |-> m] : m \in Messages}] : n \in 0..MaxLogs }
Updates ==
    {[kind |-> "Queued", logs |-> <<>>]}
    \cup {[kind |-> "InProgress", logs |-> l] : l \in LogLists}

---------------------------------------------------------------------------
(* What the page shows. *)

StatusEmpty    == [kind |-> "empty", message |-> ""]
StatusStarting == [kind |-> "markdown", message |-> "Starting generation..."]
StatusComplete == [kind |-> "markdown", message |-> "Generation complete!"]
StatusProgress(m) == [kind |-> "progress", message |-> m]

NoImageError == [text |-> "No image was generated. Please try again.", detail |-> <<>>]
GenericError(e) == [text |-> "Error generating image: ", detail |-> e]
InvalidKeyHint ==
    [text |-> "Invalid API key. Please check your API key and try again.", detail |-> <<>>]

---------------------------------------------------------------------------
(* The script's pure parts. *)

\* A text_input given a key=: the widget keeps its value when value= changes.
TextInputKeyed(w, value) == w

\* st.text_input(..., value=value) on the widget w of the previous run.
TextInput(w, value) ==
    IF w.default = value THEN w ELSE [default |-> value, value |-> value]

\* Lines 58-67: the widget after the call, and session_state.api_key after line 66.
SidebarWidget(w, key) == TextInput(w, key)
SidebarKey(w, key) ==
    LET v == TextInput(w, key).value IN IF v # "" THEN v ELSE key

\* Line 130: disabled=not st.session_state.api_key.
Disabled(key) == key = ""

\* Line 146 without the test of prompt.
SubmitsWithoutPrompt(button, p, key) == button /\ key # ""

\* Line 146: generate_button and prompt and st.session_state.api_key.
Submits(button, p, key) == button /\ p # "" /\ key # ""

\* Lines 35-44 with guidance_scale and strength taken from each other's slider.
ArgumentsSwapped(p, size, steps, guidance, str) ==
    [prompt |-> p,
     image_size |-> size,
     num_inference_steps |-> steps,
     guidance_scale |-> str,
     num_images |-> 1,
     enable_safety_checker |-> FALSE,
     strength |-> guidance,
     output_format |-> "jpeg"]

\* The arguments generate_image hands to fal_client.subscribe (lines 35-44).
Arguments(p, size, steps, guidance, str) ==
    [prompt |-> p,
     image_size |-> size,
     num_inference_steps |-> steps,
     guidance_scale |-> guidance,
     num_images |-> 1,
     enable_safety_checker |-> FALSE,
     strength |-> str,
     output_format |-> "jpeg"]

\* Line 31 written as os.environ.setdefault('FAL_KEY', api_key).
InstallKeyIfUnset(env, key) == IF env = "" THEN key ELSE env

\* FAL_KEY after line 31, given its value before and the api_key argument.
InstallKey(env, key) == key

\* The credential the remote call goes out with: FAL_KEY as subscribe finds it.
AuthOf(env, key) == env

\* on_queue_update (lines 24-27) on the state [status, shown] of the placeholder.
RECURSIVE ShowLogs(_, _)
ShowLogs(st, logs) ==
    IF Len(logs) = 0 THEN st
    ELSE ShowLogs([status |-> StatusProgress(logs[1].message),
                   shown |-> Append(st.shown, logs[1].message)],
                  Tail(logs))

\* on_queue_update walking update.logs from the newest entry to the oldest.
OnQueueUpdateReversed(st, update) ==
    IF update.kind = "InProgress"
    THEN ShowLogs(st, [i \in 1..Len(update.logs) |->
                          update.logs[Len(update.logs) + 1 - i]])
    ELSE st

OnQueueUpdate(st, update) ==
    IF update.kind = "InProgress" THEN ShowLogs(st, update.logs) ELSE st

\* Line 151.
HasImages(result) ==
    /\ result.kind = "dict" /\ result.keys # {}
    /\ "images" \in result.keys
    /\ Len(result.images) > 0

\* Line 152 taking result["images"][-1].
ImageUrlLast(result) == result.images[Len(result.images)].url

\* Line 152.
ImageUrl(result) == result.images[1].url

\* Lines 173-176: the boxes the except branch draws for an exception e.
ExceptBranch(e) ==
    <<GenericError(e)>>
    \o (IF Contains(Unauthorized, Lower(e)) THEN <<InvalidKeyHint>> ELSE <<>>)

\* Lines 162-169.
Details(p, size, steps, guidance, str) ==
    [image_size |-> size, steps |-> steps, guidance_scale |-> guidance,
     strength |-> str, prompt |-> p]

\* Lines 151-176 without the else branch of line 170.
AfterReturnSilent(result, fetch, status, dump) ==
    IF HasImages(result)
    THEN IF fetch.ok
         THEN [status |-> StatusComplete, errors |-> <<>>,
               fetched |-> <<result.images[1].url>>,
               image |-> <<result.images[1].url>>,
               download_link |-> <<result.images[1].url>>,
               details |-> <<dump>>]
         ELSE [status |-> StatusComplete, errors |-> ExceptBranch(fetch.error),
               fetched |-> <<result.images[1].url>>,
               image |-> <<>>, download_link |-> <<>>, details |-> <<>>]
    ELSE [status |-> status, errors |-> <<>>,
          fetched |-> <<>>, image |-> <<>>, download_link |-> <<>>,
          details |-> <<>>]

\* Lines 151-176 once subscribe has returned result: what the page shows.
\* fetch is what requests.get and Image.open do with the URL they are given.
AfterReturn(result, fetch, status, dump) ==
    IF HasImages(result)
    THEN IF fetch.ok
         THEN [status |-> StatusComplete, errors |-> <<>>,
               fetched |-> <<ImageUrl(result)>>,
               image |-> <<ImageUrl(result)>>,
               download_link |-> <<ImageUrl(result)>>,
               details |-> <<dump>>]
         ELSE [status |-> StatusComplete, errors |-> ExceptBranch(fetch.error),
               fetched |-> <<ImageUrl(result)>>,
               image |-> <<>>, download_link |-> <<>>, details |-> <<>>]
    ELSE [status |-> status, errors |-> <<NoImageError>>,
          fetched |-> <<>>, image |-> <<>>, download_link |-> <<>>,
          details |-> <<>>]

\* Lines 173-176 once subscribe has raised e.
AfterRaise(e, status) ==
    [status |-> status, errors |-> ExceptBranch(e),
     fetched |-> <<>>, image |-> <<>>, download_link |-> <<>>, details |-> <<>>]

\* An except branch that calls generate_image once more.
RetryOnce(e) == 1

\* Remote calls a submission whose call raised makes after it: none (no retry).
RetriesAfterRaise(e) == 0

---------------------------------------------------------------------------
(* The state after the page has been loaded once in every session. *)

Init ==
    /\ api_key = [s \in Sessions |-> ""]
    /\ example_prompt = [s \in Sessions |-> <<>>]
    /\ key_input = [s \in Sessions |-> [default |-> "", value |-> ""]]
    /\ prompt = [s \in Sessions |-> ""]
    /\ image_size = [s \in Sessions |-> DefaultImageSize]
    /\ num_steps = [s \in Sessions |-> DefaultNumSteps]
    /\ guidance_scale = [s \in Sessions |-> DefaultGuidanceScale]
    /\ strength = [s \in Sessions |-> DefaultStrength]
    /\ generate_button = [s \in Sessions |-> FALSE]
    /\ generate_disabled = [s \in Sessions |-> TRUE]
    /\ os_environ = ""
    /\ envWriter = "none"
    /\ pc = [s \in Sessions |-> "Idle"]
    /\ status_placeholder = [s \in Sessions |-> StatusEmpty]
    /\ errors = [s \in Sessions |-> <<>>]
    /\ image = [s \in Sessions |-> <<>>]
    /\ download_link = [s \in Sessions |-> <<>>]
    /\ details = [s \in Sessions |-> <<>>]
    /\ fetched = [s \in Sessions |-> <<>>]
    /\ request = [s \in Sessions |-> <<>>]
    /\ response = [s \in Sessions |-> <<>>]
    /\ arrived = [s \in Sessions |-> <<>>]
    /\ shown = [s \in Sessions |-> <<>>]
    /\ nCalls = [s \in Sessions |-> 0]
    /\ dispatched = [s \in Sessions |-> 0]

---------------------------------------------------------------------------
(* Runs of the script. *)

\* A run draws the page anew: lines 141-144 and nothing below them.
ClearPage(s) ==
    /\ status_placeholder' = [status_placeholder EXCEPT ![s] = StatusEmpty]
    /\ errors' = [errors EXCEPT ![s] = <<>>]
    /\ image' = [image EXCEPT ![s] = <<>>]
    /\ download_link' = [download_link EXCEPT ![s] = <<>>]
    /\ details' = [details EXCEPT ![s] = <<>>]
    /\ fetched' = [fetched EXCEPT ![s] = <<>>]
    /\ request' = [request EXCEPT ![s] = <<>>]
    /\ response' = [response EXCEPT ![s] = <<>>]
    /\ arrived' = [arrived EXCEPT ![s] = <<>>]
    /\ shown' = [shown EXCEPT ![s] = <<>>]

\* A whole run in which no button was clicked, started with the key widget w,
\* session_state.api_key = key and the text_area holding p.
PlainRun(s, w, key, p) ==
    /\ key_input' = [key_input EXCEPT ![s] = SidebarWidget(w, key)]
    /\ api_key' = [api_key EXCEPT ![s] = SidebarKey(w, key)]
    /\ generate_button' = [generate_button EXCEPT ![s] = FALSE]
    /\ generate_disabled' =
           [generate_disabled EXCEPT ![s] = Disabled(SidebarKey(w, key))]
    /\ ClearPage(s)
    /\ pc' = [pc EXCEPT ![s] = "Idle"]

\* The user types k into the API key field (k = "": erases it).
EnterKey(s, k) ==
    /\ pc[s] = "Idle"
    /\ k # key_input[s].value
    /\ PlainRun(s, [key_input[s] EXCEPT !.value = k], api_key[s], prompt[s])
    /\ UNCHANGED <<example_prompt, formVars, envVars, nCalls, dispatched>>

\* The user edits the prompt.
SetPrompt(s, p) ==
    /\ pc[s] = "Idle"
    /\ p # prompt[s]
    /\ prompt' = [prompt EXCEPT ![s] = p]
    /\ PlainRun(s, key_input[s], api_key[s], p)
    /\ UNCHANGED <<example_prompt, image_size, num_steps, guidance_scale, strength,
                   envVars, nCalls, dispatched>>

SetImageSize(s, v) ==
    /\ pc[s] = "Idle"
    /\ v # image_size[s]
    /\ image_size' = [image_size EXCEPT ![s] = v]
    /\ PlainRun(s, key_input[s], api_key[s], prompt[s])
    /\ UNCHANGED <<example_prompt, prompt, num_steps, guidance_scale, strength,
                   envVars, nCalls, dispatched>>

SetNumSteps(s, v) ==
    /\ pc[s] = "Idle"
    /\ v # num_steps[s]
    /\ num_steps' = [num_steps EXCEPT ![s] = v]
    /\ PlainRun(s, key_input[s], api_key[s], prompt[s])
    /\ UNCHANGED <<example_prompt, prompt, image_size, guidance_scale, strength,
                   envVars, nCalls, dispatched>>

SetGuidanceScale(s, v) ==
    /\ pc[s] = "Idle"
    /\ v # guidance_scale[s]
    /\ guidance_scale' = [guidance_scale EXCEPT ![s] = v]
    /\ PlainRun(s, key_input[s], api_key[s], prompt[s])
    /\ UNCHANGED <<example_prompt, prompt, image_size, num_steps, strength,
                   envVars, nCalls, dispatched>>

SetStrength(s, v) ==
    /\ pc[s] = "Idle"
    /\ v # strength[s]
    /\ strength' = [strength EXCEPT ![s] = v]
    /\ PlainRun(s, key_input[s], api_key[s], prompt[s])
    /\ UNCHANGED <<example_prompt, prompt, image_size, num_steps, guidance_scale,
                   envVars, nCalls, dispatched>>

\* session_state.api_key after line 117.
ClearedKey(key) == ""

\* Click on "Clear API Key": the run reaches line 117, then st.rerun() starts
\* a plain run.
ClearAPIKey(s) ==
    /\ pc[s] = "Idle"
    /\ PlainRun(s, SidebarWidget(key_input[s], api_key[s]),
                ClearedKey(SidebarKey(key_input[s], api_key[s])), prompt[s])
    /\ UNCHANGED <<example_prompt, formVars, envVars, nCalls, dispatched>>

\* session_state.example_prompt after line 133.
LoadedExample(old) == <<ExamplePrompt>>

\* A text_area fed from session_state.example_prompt.
PromptFromExample(p, example) == example[1]

\* The text_area's value after a click on "Load Example Prompt".
PromptAfterLoad(p, example) == p

\* Click on "Load Example Prompt": the run reaches line 133, then st.rerun()
\* starts a plain run.
LoadExamplePrompt(s) ==
    /\ pc[s] = "Idle"
    /\ example_prompt' = [example_prompt EXCEPT ![s] = LoadedExample(example_prompt[s])]
    /\ prompt' = [prompt EXCEPT ![s] = PromptAfterLoad(prompt[s], example_prompt'[s])]
    /\ PlainRun(s, SidebarWidget(key_input[s], api_key[s]),
                SidebarKey(key_input[s], api_key[s]), prompt'[s])
    /\ UNCHANGED <<image_size, num_steps, guidance_scale, strength,
                   envVars, nCalls, dispatched>>

\* Click on "Generate Image": the run reaches line 146 and, if the condition
\* holds, line 148.
PressGenerate(s) ==
    /\ pc[s] = "Idle"
    /\ ~generate_disabled[s]
    /\ dispatched[s] < MaxCalls
    /\ key_input' = [key_input EXCEPT ![s] = SidebarWidget(key_input[s], api_key[s])]
    /\ api_key' = [api_key EXCEPT ![s] = SidebarKey(key_input[s], api_key[s])]
    /\ generate_button' = [generate_button EXCEPT ![s] = TRUE]
    /\ generate_disabled' =
           [generate_disabled EXCEPT ![s] = Disabled(api_key'[s])]
    /\ errors' = [errors EXCEPT ![s] = <<>>]
    /\ image' = [image EXCEPT ![s] = <<>>]
    /\ download_link' = [download_link EXCEPT ![s] = <<>>]
    /\ details' = [details EXCEPT ![s] = <<>>]
    /\ fetched' = [fetched EXCEPT ![s] = <<>>]
    /\ request' = [request EXCEPT ![s] = <<>>]
    /\ response' = [response EXCEPT ![s] = <<>>]
    /\ arrived' = [arrived EXCEPT ![s] = <<>>]
    /\ shown' = [shown EXCEPT ![s] = <<>>]
    /\ IF Submits(TRUE, prompt[s], api_key'[s])
       THEN /\ status_placeholder' = [status_placeholder EXCEPT ![s] = StatusStarting]
            /\ pc' = [pc EXCEPT ![s] = "Submitting"]
            /\ dispatched' = [dispatched EXCEPT ![s] = @ + 1]
       ELSE /\ status_placeholder' = [status_placeholder EXCEPT ![s] = StatusEmpty]
            /\ pc' = [pc EXCEPT ![s] = "Idle"]
            /\ UNCHANGED dispatched
    /\ UNCHANGED <<example_prompt, formVars, envVars, nCalls>>

\* generate_image, line 31.
Install(s) ==
    /\ pc[s] = "Submitting"
    /\ os_environ' = InstallKey(os_environ, api_key[s])
    /\ envWriter' = s
    /\ pc' = [pc EXCEPT ![s] = "Subscribing"]
    /\ UNCHANGED <<keyVars, example_prompt, formVars, generate_button,
                   generate_disabled, outVars, cntVars>>

\* generate_image, lines 33-47: subscribe sends the request.
Dispatch(s) ==
    /\ pc[s] = "Subscribing"
    /\ request' = [request EXCEPT ![s] =
           <<[application |-> "fal-ai/flux-realism",
              arguments |-> Arguments(prompt[s], image_size[s], num_steps[s],
                                      guidance_scale[s], strength[s]),
              api_key |-> api_key[s],
              auth |-> AuthOf(os_environ, api_key[s]),
              authBy |-> envWriter]>>]
    /\ nCalls' = [nCalls EXCEPT ![s] = @ + 1]
    /\ pc' = [pc EXCEPT ![s] = "InFlight"]
    /\ UNCHANGED <<keyVars, example_prompt, formVars, generate_button,
                   generate_disabled, envVars, status_placeholder, errors, image,
                   download_link, details, fetched, response, arrived, shown,
                   dispatched>>

\* The remote service sends a queue update while subscribe blocks.
QueueUpdate(s, update) ==
    /\ pc[s] = "InFlight"
    /\ Len(arrived[s]) + Len(update.logs) <= MaxLogs
    /\ arrived' = [arrived EXCEPT ![s] =
           IF update.kind = "InProgress"
           THEN @ \o [i \in 1..Len(update.logs) |-> update.logs[i].message]
           ELSE @]
    /\ LET st == OnQueueUpdate([status |-> status_placeholder[s], shown |-> shown[s]],
                               update)
       IN /\ status_placeholder' = [status_placeholder EXCEPT ![s] = st.status]
          /\ shown' = [shown EXCEPT ![s] = st.shown]
    /\ UNCHANGED <<keyVars, example_prompt, formVars, generate_button,
                   generate_disabled, envVars, pc, errors, image, download_link,
                   details, fetched, request, response, cntVars>>

\* The page after lines 151-176, and the script's end.
Finish(s, page, extraCalls) ==
    /\ status_placeholder' = [status_placeholder EXCEPT ![s] = page.status]
    /\ errors' = [errors EXCEPT ![s] = page.errors]
    /\ fetched' = [fetched EXCEPT ![s] = page.fetched]
    /\ image' = [image EXCEPT ![s] = page.image]
    /\ download_link' = [download_link EXCEPT ![s] = page.download_link]
    /\ details' = [details EXCEPT ![s] = page.details]
    /\ nCalls' = [nCalls EXCEPT ![s] = @ + extraCalls]
    /\ pc' = [pc EXCEPT ![s] = "Idle"]
    /\ UNCHANGED <<keyVars, example_prompt, formVars, generate_button,
                   generate_disabled, envVars, request, arrived, shown,
                   dispatched>>

\* subscribe returns result; the image fetch, if the run comes to it, does fetch.
RemoteReturn(s, result, fetch) ==
    /\ pc[s] = "InFlight"
    /\ response' = [response EXCEPT ![s] = <<result>>]
    /\ Finish(s, AfterReturn(result, fetch, status_placeholder[s],
                             Details(prompt[s], image_size[s], num_steps[s],
                                     guidance_scale[s], strength[s])), 0)

\* subscribe raises an exception whose str() is e.
RemoteRaise(s, e) ==
    /\ pc[s] = "InFlight"
    /\ response' = response
    /\ Finish(s, AfterRaise(e, status_placeholder[s]), RetriesAfterRaise(e))

---------------------------------------------------------------------------
(* The specifications. *)

\* One user per process, the hosting model the application is written for.
Next ==
    \E s \in OneUser :
        \/ \E k \in Keys \cup {""} : EnterKey(s, k)
        \/ \E p \in Prompts \cup {""} : SetPrompt(s, p)
        \/ \E v \in SizeChoices : SetImageSize(s, v)
        \/ \E v \in StepChoices : SetNumSteps(s, v)
        \/ \E v \in GuidanceChoices : SetGuidanceScale(s, v)
        \/ \E v \in StrengthChoices : SetStrength(s, v)
        \/ ClearAPIKey(s)
        \/ LoadExamplePrompt(s)
        \/ PressGenerate(s)
        \/ Install(s)
        \/ Dispatch(s)
        \/ \E u \in Updates : QueueUpdate(s, u)
        \/ \E r \in Results, f \in FetchOutcomes : RemoteReturn(s, r, f)
        \/ \E e \in RemoteErrors : RemoteRaise(s, e)

Spec == Init /\ [][Next]_vars

\* The remote answers of the specification of two sessions.
OneImage ==
    [kind |-> "dict", keys |-> {"images", "seed"},
     images |-> <<[url |-> "https://fal.media/1.jpeg"]>>]

\* Two sessions of one process, each served by its own thread: the steps of
\* their runs interleave.
NextConc ==
    \E s \in Sessions :
        \/ \E k \in Keys \cup {""} : EnterKey(s, k)
        \/ \E p \in Prompts \cup {""} : SetPrompt(s, p)
        \/ ClearAPIKey(s)
        \/ PressGenerate(s)
        \/ Install(s)
        \/ Dispatch(s)
        \/ RemoteReturn(s, OneImage, FetchOk)
        \/ RemoteRaise(s, Str401)

ConcSpec == Init /\ [][NextConc]_vars

---------------------------------------------------------------------------
(* Properties. *)

HasCall(s) == Len(request[s]) = 1
Req(s) == request[s][1]
Returned(s) == Len(response[s]) = 1
Resp(s) == response[s][1]

\* A submission that has entered the handler and not yet made its call.
Pending(s) == IF pc[s] \in {"Submitting", "Subscribing"} THEN 1 ELSE 0

\* C1 as stated: Generate is enabled exactly when the credential and the
\* prompt are both non-empty.
C1_ReadyIffKeyAndPrompt ==
    \A s \in Sessions :
        ~generate_disabled[s] <=> (api_key[s] # "" /\ prompt[s] # "")

\* C1, amended: Generate is disabled exactly when the held credential is empty,
\* whatever the prompt is; a run is in the submission handler, and a remote call
\* is made, only with a non-empty prompt and a non-empty credential; a click
\* with an empty prompt ends its run with no call and nothing shown.
C1_DispatchNeedsKeyAndPrompt ==
    \A s \in Sessions :
        /\ generate_disabled[s] <=> api_key[s] = ""
        /\ pc[s] # "Idle" => prompt[s] # "" /\ api_key[s] # ""
        /\ HasCall(s) =>
              /\ prompt[s] # "" /\ api_key[s] # ""
              /\ Req(s).arguments.prompt # "" /\ Req(s).api_key # ""
        /\ (pc[s] = "Idle" /\ generate_button[s] /\ prompt[s] = "") =>
              /\ ~HasCall(s)
              /\ errors[s] = <<>> /\ image[s] = <<>>
              /\ status_placeholder[s] = StatusEmpty
        /\ nCalls[s] <= dispatched[s]

\* A click on the enabled button with an empty prompt: nothing was dispatched.
C1_Witness ==
    \E s \in Sessions :
        /\ pc[s] = "Idle" /\ generate_button[s]
        /\ prompt[s] = "" /\ api_key[s] # "" /\ ~generate_disabled[s]
        /\ nCalls[s] = 0 /\ dispatched[s] = 0

\* C2: the arguments of every remote call are the eight-field record made of
\* the form's prompt, image_size, steps, guidance scale and strength and of
\* num_images = 1, enable_safety_checker = false, output_format = "jpeg".
C2_PayloadIsForm ==
    \A s \in Sessions :
        HasCall(s) =>
            /\ DOMAIN Req(s).arguments =
                   {"prompt", "image_size", "num_inference_steps", "guidance_scale",
                    "num_images", "enable_safety_checker", "strength", "output_format"}
            /\ Req(s).arguments.prompt = prompt[s]
            /\ Req(s).arguments.image_size = image_size[s]
            /\ Req(s).arguments.num_inference_steps = num_steps[s]
            /\ Req(s).arguments.guidance_scale = guidance_scale[s]
            /\ Req(s).arguments.strength = strength[s]
            /\ Req(s).arguments.num_images = 1
            /\ Req(s).arguments.enable_safety_checker = FALSE
            /\ Req(s).arguments.output_format = "jpeg"

\* A call made with every setting moved away from its default.
C2_Witness ==
    \E s \in Sessions :
        /\ HasCall(s)
        /\ image_size[s] = "square" /\ num_steps[s] = 50
        /\ guidance_scale[s] = 200 /\ strength[s] = 5
        /\ Req(s).arguments.prompt = "a red fox in snow"

\* A response without images: None, {}, no "images" field, or an empty list.
ZeroImages(r) ==
    \/ r.kind = "None"
    \/ r.keys = {}
    \/ "images" \notin r.keys
    \/ Len(r.images) = 0

\* C3: when the remote call returns with zero images, the run ends showing the
\* error "No image was generated. Please try again." and nothing else: no
\* fetch, no image, no download link, no parameter dump, no credential hint.
C3_EmptyResult ==
    \A s \in Sessions :
        (pc[s] = "Idle" /\ Returned(s) /\ ZeroImages(Resp(s))) =>
            /\ errors[s] = <<NoImageError>>
            /\ fetched[s] = <<>> /\ image[s] = <<>>
            /\ download_link[s] = <<>> /\ details[s] = <<>>
            /\ \A i \in 1..Len(errors[s]) : errors[s][i] # InvalidKeyHint

\* The remote call has returned {"images": []}.
C3_Witness ==
    \E s \in Sessions :
        /\ pc[s] = "Idle" /\ Returned(s)
        /\ "images" \in Resp(s).keys /\ Len(Resp(s).images) = 0
        /\ errors[s] = <<NoImageError>>

\* The modelled error texts that contain "unauthorized" in some letter case.
WithUnauthorized == {Str401, StrUpper}

\* The run's call raised, or the fetch of its image did.
Raised(s) ==
    /\ pc[s] = "Idle" /\ HasCall(s)
    /\ \/ ~Returned(s)
       \/ Returned(s) /\ ~ZeroImages(Resp(s)) /\ image[s] = <<>>

\* C4: an error raised during a submission shows the generic message with the
\* error's text, followed by the invalid-key hint exactly when the text
\* contains "unauthorized" in any letter case.
C4_UnauthorizedHint ==
    \A s \in Sessions :
        /\ Raised(s) => errors[s] # <<>> /\ errors[s][1].text = "Error generating image: "
        /\ (errors[s] # <<>> /\ errors[s][1].text = "Error generating image: ") =>
              errors[s] = IF errors[s][1].detail \in WithUnauthorized
                          THEN <<GenericError(errors[s][1].detail), InvalidKeyHint>>
                          ELSE <<GenericError(errors[s][1].detail)>>

\* The remote call raised "401 Unauthorized".
C4_Witness ==
    \E s \in Sessions :
        /\ pc[s] = "Idle" /\ HasCall(s) /\ ~Returned(s)
        /\ errors[s] = <<GenericError(Str401), InvalidKeyHint>>

\* C5: after a response with one or more images, the URL fetched, the image
\* shown and the download link are all the first URL of the list.
C5_FirstUrl ==
    \A s \in Sessions :
        (pc[s] = "Idle" /\ Returned(s) /\ ~ZeroImages(Resp(s))) =>
            /\ fetched[s] = <<Resp(s).images[1].url>>
            /\ image[s] # <<>> =>
                  /\ image[s] = <<Resp(s).images[1].url>>
                  /\ download_link[s] = <<Resp(s).images[1].url>>
            /\ image[s] = <<>> => download_link[s] = <<>> /\ errors[s] # <<>>

\* Two different URLs were returned and the first one is shown and linked.
C5_Witness ==
    \E s \in Sessions :
        /\ pc[s] = "Idle" /\ Returned(s)
        /\ Len(Resp(s).images) = 2
        /\ Resp(s).images[1].url # Resp(s).images[2].url
        /\ image[s] = <<Resp(s).images[1].url>>
        /\ download_link[s] = <<Resp(s).images[1].url>>

\* C6: every run that enters the submission handler makes exactly one remote
\* call.  The calls a session has made are its submissions, less the one that
\* has not reached subscribe yet; a call is made only by subscribe, so none
\* follows a failure; and Generate clicked again on the page of a finished
\* submission (same prompt, settings and credential) starts a new submission.
C6_OneCallPerSubmission ==
    /\ [](\A s \in Sessions : nCalls[s] + Pending(s) = dispatched[s])
    /\ [][\A s \in Sessions :
            /\ nCalls'[s] # nCalls[s] =>
                  /\ pc[s] = "Subscribing" /\ pc'[s] = "InFlight"
                  /\ nCalls'[s] = nCalls[s] + 1
            /\ (pc[s] = "Idle" /\ HasCall(s) /\ generate_button'[s]) =>
                  /\ pc'[s] = "Submitting"
                  /\ dispatched'[s] = dispatched[s] + 1
                  /\ request'[s] = <<>>]_vars

\* Two submissions, two calls, the second of which raised: no third call.
C6_Witness ==
    \E s \in Sessions :
        /\ pc[s] = "Idle" /\ dispatched[s] = 2 /\ nCalls[s] = 2
        /\ HasCall(s) /\ ~Returned(s) /\ errors[s] # <<>>

OutcomeOf(img, errs) ==
    IF img # <<>> THEN "Succeeded" ELSE IF errs # <<>> THEN "Failed" ELSE "none"

PcSteps ==
    {<<"Idle", "Idle">>, <<"Idle", "Submitting">>, <<"Submitting", "Subscribing">>,
     <<"Subscribing", "InFlight">>, <<"InFlight", "InFlight">>, <<"InFlight", "Idle">>}

\* C7: a submission goes Idle, Submitting, in flight, outcome, Idle.  The
\* status "Starting generation..." is up before the call is made; progress lines
\* are shown only during the call, in arrival order; the run that leaves the
\* call ends in exactly one of Succeeded (image shown) and Failed (error
\* shown), back in Idle with Generate enabled.
C7_SubmissionCycle ==
    /\ [](\A s \in Sessions :
            /\ pc[s] \in {"Submitting", "Subscribing"} =>
                  status_placeholder[s] = StatusStarting /\ ~HasCall(s)
            /\ shown[s] = arrived[s]
            /\ shown[s] # <<>> => HasCall(s)
            /\ ~(image[s] # <<>> /\ errors[s] # <<>>)
            /\ pc[s] # "Idle" => OutcomeOf(image[s], errors[s]) = "none")
    /\ [][\A s \in Sessions :
            /\ <<pc[s], pc'[s]>> \in PcSteps
            /\ (pc[s] = "InFlight" /\ pc'[s] = "Idle") =>
                  /\ OutcomeOf(image'[s], errors'[s]) \in {"Succeeded", "Failed"}
                  /\ ~generate_disabled'[s]
            /\ shown'[s] # shown[s] =>
                  \/ pc[s] = "InFlight" /\ pc'[s] = "InFlight"
                  \/ shown'[s] = <<>>]_vars

\* Two different progress lines were shown, then the image fetch failed and
\* the error was shown with the session back in Idle.
C7_Witness ==
    \E s \in Sessions :
        /\ pc[s] = "Idle" /\ Len(shown[s]) = 2 /\ shown[s][1] # shown[s][2]
        /\ Len(fetched[s]) = 1 /\ errors[s] # <<>> /\ image[s] = <<>>
        /\ ~generate_disabled[s]

\* C8: the held credential changes only when a non-empty one is entered or
\* Clear API Key is clicked; after Clear it is empty and Generate is disabled;
\* while it is empty no run is in the submission handler.
C8_CredentialHolder ==
    /\ [][\A s \in Sessions :
            api_key'[s] # api_key[s] =>
                \/ ClearAPIKey(s)
                \/ \E k \in Keys : EnterKey(s, k) /\ api_key'[s] = k]_vars
    /\ [][\A s \in Sessions :
            ClearAPIKey(s) =>
                /\ api_key'[s] = "" /\ key_input'[s].value = ""
                /\ generate_disabled'[s] /\ pc'[s] = "Idle"]_vars
    /\ [](\A s \in Sessions :
            api_key[s] = "" => generate_disabled[s] /\ pc[s] = "Idle" /\ ~HasCall(s))

\* A session that has made calls and whose credential is now empty.
C8_Witness ==
    \E s \in Sessions :
        /\ nCalls[s] > 0 /\ api_key[s] = "" /\ key_input[s].value = ""
        /\ generate_disabled[s] /\ prompt[s] # ""

C10_LoadExampleFrame ==
    /\ [][\A s \in Sessions :
            LoadExamplePrompt(s) =>
                /\ prompt'[s] = prompt[s] /\ api_key'[s] = api_key[s]
                /\ image_size'[s] = image_size[s] /\ num_steps'[s] = num_steps[s]
                /\ guidance_scale'[s] = guidance_scale[s] /\ strength'[s] = strength[s]
                /\ nCalls' = nCalls /\ dispatched' = dispatched
                /\ pc'[s] = "Idle" /\ request'[s] = <<>>
                /\ example_prompt'[s] = <<ExamplePrompt>>]_vars
    /\ [](\A s \in Sessions :
            HasCall(s) =>
                /\ Req(s).arguments.prompt = prompt[s]
                /\ Req(s).arguments.prompt # ExamplePrompt)

\* A call made after the example was loaded carries the typed prompt.
C10_Witness ==
    \E s \in Sessions :
        /\ example_prompt[s] = <<ExamplePrompt>> /\ HasCall(s)
        /\ Req(s).arguments.prompt = "a red fox in snow"

===========================================================================
